---------------------------- MODULE Spec2Model ----------------------------
(***************************************************************************)
(* Model of the OneAgent bridge (packages/cli/src/oneagent-bridge.ts) and  *)
(* of the report_status tool (packages/core/src/tools/                     *)
(* report-status-tool.ts, both versions held by that file).                *)
(*                                                                         *)
(* JavaScript strings are TLA+ strings.  A value of type                   *)
(* `string | undefined' (or `string | null') is a tuple of length at most  *)
(* one: << >> is undefined/null, <<s>> is the string s.                    *)
(***************************************************************************)
EXTENDS Integers, Sequences, FiniteSets, TLC

VARIABLES
    \* ---- the bridge process (oneagent-bridge.ts) ----
    argv,       \* process.argv, argv[1] is JavaScript's process.argv[0]
    env,        \* process.env, the four variables the bridge reads or writes
    pc,         \* position of main()
    mockArgs,   \* the openaiApiKey / openaiBaseUrl / model handed to loadCliConfig
    stdout,     \* lines written to standard output
    stderr,     \* lines written to standard error
    exitCode,   \* << >> while running, <<c>> once the process has exited
    trace,      \* the external steps called so far, in order, each with its outcome
    thrown,     \* the value caught by main's catch block, << >> if none
    \* ---- one call of the report_status tool (report-status-tool.ts) ----
    variant,    \* which version of the tool: "result" or "message"
    tpc,        \* "idle", "rejected", "built"
    raw,        \* the raw params of the current call
    error,      \* what validateToolParamValues returned for raw
    inv,        \* params of the ReportStatusToolInvocation constructed
    outputs     \* the ToolResults returned by execute on inv, oldest first

bridgeVars == <<argv, env, pc, mockArgs, stdout, stderr, exitCode, trace, thrown>>
toolVars == <<variant, tpc, raw, error, inv, outputs>>
vars == <<argv, env, pc, mockArgs, stdout, stderr, exitCode, trace, thrown,
          variant, tpc, raw, error, inv, outputs>>

-----------------------------------------------------------------------------
(* JavaScript values *)

Undefined == << >>
Null == << >>
Str(s) == <<s>>

\* JavaScript truthiness of a `string | undefined'
Truthy(o) == o # Undefined /\ o[1] # ""

\* a || b
OrElse(a, b) == IF Truthy(a) THEN a ELSE b

CharAt(s, i) == SubSeq(s, i, i)

UpperCase == "ABCDEFGHIJKLMNOPQRSTUVWXYZ"
LowerCase == "abcdefghijklmnopqrstuvwxyz"

toLowerCaseChar(c) ==
    IF \E i \in 1..Len(UpperCase) : CharAt(UpperCase, i) = c
    THEN CharAt(LowerCase, CHOOSE i \in 1..Len(UpperCase) : CharAt(UpperCase, i) = c)
    ELSE c

\* every character mapped, the text taken half by half
RECURSIVE toLowerCase(_)
toLowerCase(s) ==
    IF Len(s) = 0 THEN ""
    ELSE IF Len(s) = 1 THEN toLowerCaseChar(s)
    ELSE toLowerCase(SubSeq(s, 1, Len(s) \div 2))
            \o toLowerCase(SubSeq(s, Len(s) \div 2 + 1, Len(s)))

\* Array.prototype.join
RECURSIVE join(_, _)
join(arr, sep) ==
    IF arr = << >> THEN ""
    ELSE IF Len(arr) = 1 THEN arr[1]
    ELSE arr[1] \o sep \o join(Tail(arr), sep)

\* Array.prototype.includes
includes(arr, x) == \E i \in 1..Len(arr) : arr[i] = x

\* the lines of the text a \o b, from the lines of a and the lines of b: the
\* last line of a goes on in the first line of b
JoinLines(la, lb) ==
    SubSeq(la, 1, Len(la) - 1) \o <<la[Len(la)] \o lb[1]>> \o SubSeq(lb, 2, Len(lb))

\* the lines of a text: the pieces between its line feeds
RECURSIVE Lines(_)
Lines(s) ==
    IF Len(s) = 0 THEN <<"">>
    ELSE IF Len(s) = 1 THEN (IF s = "\n" THEN <<"", "">> ELSE <<s>>)
    ELSE JoinLines(Lines(SubSeq(s, 1, Len(s) \div 2)),
                   Lines(SubSeq(s, Len(s) \div 2 + 1, Len(s))))

StartsWith(s, prefix) ==
    Len(s) >= Len(prefix) /\ SubSeq(s, 1, Len(prefix)) = prefix

\* the escaping JSON.stringify applies to the characters of a string
JsonEscapeChar(c) ==
    IF c = "\"" THEN "\\\""
    ELSE IF c = "\\" THEN "\\\\"
    ELSE IF c = "\n" THEN "\\n"
    ELSE c

RECURSIVE JsonEscape(_)
JsonEscape(s) ==
    IF Len(s) = 0 THEN ""
    ELSE IF Len(s) = 1 THEN JsonEscapeChar(s)
    ELSE JsonEscape(SubSeq(s, 1, Len(s) \div 2))
            \o JsonEscape(SubSeq(s, Len(s) \div 2 + 1, Len(s)))

JsonString(s) == "\"" \o JsonEscape(s) \o "\""

\* one "key":"value" member per defined field, in the object's key order;
\* JSON.stringify leaves out the keys whose value is undefined
RECURSIVE JsonMembers(_, _)
JsonMembers(obj, keys) ==
    IF keys = << >> THEN << >>
    ELSE (IF obj[Head(keys)] = Undefined THEN << >>
          ELSE << JsonString(Head(keys)) \o ":" \o JsonString(obj[Head(keys)][1]) >>)
         \o JsonMembers(obj, Tail(keys))

JSONstringify(obj, keys) == "{" \o join(JsonMembers(obj, keys), ",") \o "}"

-----------------------------------------------------------------------------
(* report-status-tool.ts *)

VALID_STATUSES == <<"success", "failure", "rejected", "interrupted">>

\* the fields of ReportStatusParams, in declaration order, per version
ResultKeys == <<"status", "result", "reason", "mismatch_detail">>
MessageKeys == <<"status", "message">>

InvalidStatusError(status) ==
    "Invalid status \"" \o status \o "\". Must be one of: "
        \o join(VALID_STATUSES, ", ") \o " (case-insensitive)"

\* the mutants of validateToolParamValues: one without the membership test,
\* one that trims nothing but tests the payload before the status, one that
\* compares the status as written
validateNoMembership_result(params) ==
    IF ~Truthy(params.status) THEN Str("status is required")
    ELSE IF ~Truthy(params.result) THEN Str("result is required")
    ELSE Null

validatePayloadFirst_result(params) ==
    IF ~Truthy(params.result) THEN Str("result is required")
    ELSE IF ~Truthy(params.status) THEN Str("status is required")
    ELSE IF ~includes(VALID_STATUSES, toLowerCase(params.status[1]))
    THEN Str(InvalidStatusError(params.status[1]))
    ELSE Null

validateCaseSensitive_message(params) ==
    IF ~Truthy(params.status) THEN Str("status is required")
    ELSE IF ~Truthy(params.message) THEN Str("message is required")
    ELSE IF ~includes(VALID_STATUSES, params.status[1])
    THEN Str(InvalidStatusError(params.status[1]))
    ELSE Null

\* ReportStatusTool.validateToolParamValues, version with `result'
validateToolParamValues_result(params) ==
    IF ~Truthy(params.status) THEN Str("status is required")
    ELSE IF ~Truthy(params.result) THEN Str("result is required")
    ELSE IF ~includes(VALID_STATUSES, toLowerCase(params.status[1]))
    THEN Str(InvalidStatusError(params.status[1]))
    ELSE Null

\* ReportStatusTool.validateToolParamValues, version with `message'
validateToolParamValues_message(params) ==
    IF ~Truthy(params.status) THEN Str("status is required")
    ELSE IF ~Truthy(params.message) THEN Str("message is required")
    ELSE IF ~includes(VALID_STATUSES, toLowerCase(params.status[1]))
    THEN Str(InvalidStatusError(params.status[1]))
    ELSE Null

\* mutants of createInvocation: the status kept as written; the reason dropped
createKeepsCase_result(params) ==
    [status |-> params.status,
     result |-> params.result,
     reason |-> params.reason,
     mismatch_detail |-> params.mismatch_detail]

\* ReportStatusTool.createInvocation, version with `result'
createInvocation_result(params) ==
    [status |-> Str(toLowerCase(params.status[1])),
     result |-> params.result,
     reason |-> params.reason,
     mismatch_detail |-> params.mismatch_detail]

\* ReportStatusTool.createInvocation, version with `message'
createInvocation_message(params) ==
    [status |-> Str(toLowerCase(params.status[1])),
     message |-> params.message]

\* mutant of execute: the reason line written even when there is no reason
executeAlwaysReason_result(params) ==
    [llmContent |-> << [text |-> JSONstringify(params, ResultKeys)] >>,
     returnDisplay |->
        "Status: " \o params.status[1] \o "\nResult: " \o params.result[1]
        \o "\nReason: " \o (IF Truthy(params.reason) THEN params.reason[1] ELSE "")
        \o (IF Truthy(params.mismatch_detail)
            THEN "\nMismatch Detail: " \o params.mismatch_detail[1] ELSE "")]

\* ReportStatusToolInvocation.execute, version with `result'
execute_result(params) ==
    [llmContent |-> << [text |-> JSONstringify(params, ResultKeys)] >>,
     returnDisplay |->
        "Status: " \o params.status[1] \o "\nResult: " \o params.result[1]
        \o (IF Truthy(params.reason) THEN "\nReason: " \o params.reason[1] ELSE "")
        \o (IF Truthy(params.mismatch_detail)
            THEN "\nMismatch Detail: " \o params.mismatch_detail[1] ELSE "")]

\* ReportStatusToolInvocation.execute, version with `message'
execute_message(params) ==
    [llmContent |-> << [text |-> JSONstringify(params, MessageKeys)] >>,
     returnDisplay |->
        "Status: " \o params.status[1] \o "\nResult: " \o params.message[1]]

validateToolParamValues(v, params) ==
    IF v = "result" THEN validateToolParamValues_result(params)
    ELSE validateToolParamValues_message(params)

createInvocation(v, params) ==
    IF v = "result" THEN createInvocation_result(params)
    ELSE createInvocation_message(params)

execute(v, params) ==
    IF v = "result" THEN execute_result(params) ELSE execute_message(params)

(* the raw parameters a caller may hand to the tool *)

MaxExecute == 2

StatusTexts ==
    {"success", "SUCCESS", "Success", "sUcCeSs", "failure", "FAILURE", "Failure",
     "rejected", "Rejected", "interrupted", "INTERRUPTED", "iNTERRUPTEd",
     "", " success", "success ", "succes", "successs", "ok", "DONE",
     "success\n", "rejected,interrupted"}
PayloadTexts == {"", "ok", "  padded  ", "line1\nline2", "say \"hi\" \\ bye"}
ReasonTexts == {"", "FileSystemError", "a\nb"}
MismatchTexts == {"", "no network"}

Optional(S) == {Undefined} \cup {Str(s) : s \in S}

ResultParams ==
    [status : Optional(StatusTexts), result : Optional(PayloadTexts),
     reason : Optional(ReasonTexts), mismatch_detail : Optional(MismatchTexts)]
MessageParams ==
    [status : Optional(StatusTexts), message : Optional(PayloadTexts)]

RawParams(v) == IF v = "result" THEN ResultParams ELSE MessageParams

PayloadOf(v, params) == IF v = "result" THEN params.result ELSE params.message

(* one call of the tool *)

\* BaseDeclarativeTool.build: validate, then construct the invocation
Build(params) ==
    /\ tpc = "idle"
    /\ raw' = params
    /\ error' = validateToolParamValues(variant, params)
    /\ IF error' = Null
       THEN /\ inv' = createInvocation(variant, params)
            /\ tpc' = "built"
       ELSE /\ inv' = inv
            /\ tpc' = "rejected"
    /\ UNCHANGED <<variant, outputs>>
    /\ UNCHANGED bridgeVars

\* invocation.execute(signal)
Execute ==
    /\ tpc = "built"
    /\ Len(outputs) < MaxExecute
    /\ outputs' = Append(outputs, execute(variant, inv))
    /\ UNCHANGED <<variant, tpc, raw, error, inv>>
    /\ UNCHANGED bridgeVars

\* the call is over: the invocation, or the validation error, is dropped
Finish ==
    /\ tpc \in {"rejected", "built"}
    /\ tpc' = "idle"
    /\ raw' = Undefined
    /\ error' = Null
    /\ inv' = Undefined
    /\ outputs' = << >>
    /\ UNCHANGED variant
    /\ UNCHANGED bridgeVars

NoProcess ==
    /\ argv = << >>
    /\ env = << >>
    /\ pc = "none"
    /\ mockArgs = << >>
    /\ stdout = << >>
    /\ stderr = << >>
    /\ exitCode = << >>
    /\ trace = << >>
    /\ thrown = << >>

ToolIdle(v) ==
    /\ variant = v
    /\ tpc = "idle"
    /\ raw = Undefined
    /\ error = Null
    /\ inv = Undefined
    /\ outputs = << >>

InitTool == NoProcess /\ \E v \in {"result", "message"} : ToolIdle(v)

NextTool ==
    \/ \E params \in RawParams(variant) : Build(params)
    \/ Execute
    \/ Finish

SpecTool == InitTool /\ [][NextTool]_vars

-----------------------------------------------------------------------------
(* oneagent-bridge.ts *)

MaxArgs == 3
MaxEngineLines == 1

Steps ==
    <<"loadSettings", "loadCliConfig", "initialize", "refreshAuth",
      "registerTool", "runNonInteractive">>

UsageText == "Usage: node oneagent-bridge.js <prompt>"
MarkerPrefix == "__ONEAGENT_RESULT__:"
SuccessMarker ==
    "__ONEAGENT_RESULT__:{\"status\":\"success\",\"result\":\"Task completed successfully via native CLI.\"}"

\* String(e): Error.prototype.toString for an Error, the value itself for a string
String(e) ==
    IF e.type = "string" THEN e.message
    ELSE IF e.message = "" THEN e.name
    ELSE IF e.name = "" THEN e.message
    ELSE e.name \o ": " \o e.message

FailureMarker(e) ==
    "__ONEAGENT_RESULT__:{\"status\":\"failure\",\"result\":\"Bridge Exception: "
        \o String(e) \o "\"}"

\* Array.prototype.indexOf, with JavaScript's indices (from 0, -1 if absent)
indexOf(arr, x) ==
    IF includes(arr, x)
    THEN (CHOOSE i \in 1..Len(arr) : arr[i] = x /\ \A j \in 1..(i - 1) : arr[j] # x) - 1
    ELSE -1

\* arr[i], with JavaScript's indices
At(arr, i) == IF i >= 0 /\ i < Len(arr) THEN Str(arr[i + 1]) ELSE Undefined

getArgValue(args, argName) ==
    LET index == indexOf(args, argName)
    IN  IF index # -1 /\ Truthy(At(args, index + 1))
        THEN At(args, index + 1)
        ELSE Undefined

\* String.prototype.substring(0, n)
substring0(s, n) == SubSeq(s, 1, IF Len(s) < n THEN Len(s) ELSE n)

\* `${x}` of a `string | undefined'
Template(o) == IF o = Undefined THEN "undefined" ELSE o[1]

ConfigLogLine(modelName, openaiBaseUrl) ==
    "[bridge] Config: model=" \o Template(modelName) \o ", base_url="
        \o Template(IF openaiBaseUrl = Undefined THEN Undefined
                    ELSE Str(substring0(openaiBaseUrl[1], 30)))
        \o "..."

\* mutant of buildMockArgs: the environment variable wins over the flag
buildMockArgsEnvFirst(args, environment) ==
    [openaiApiKey |-> OrElse(environment.OPENAI_API_KEY,
                             getArgValue(args, "--openai-api-key")),
     openaiBaseUrl |-> OrElse(environment.OPENAI_BASE_URL,
                              getArgValue(args, "--openai-base-url")),
     model |-> getArgValue(args, "--model"),
     prompt |-> At(args, 2)[1]]

\* what main() hands to loadCliConfig, the fields that depend on the inputs
buildMockArgs(args, environment) ==
    [openaiApiKey |-> OrElse(getArgValue(args, "--openai-api-key"),
                             environment.OPENAI_API_KEY),
     openaiBaseUrl |-> OrElse(getArgValue(args, "--openai-base-url"),
                              environment.OPENAI_BASE_URL),
     model |-> getArgValue(args, "--model"),
     prompt |-> At(args, 2)[1]]

\* console.log / console.error: one write, ended by a line feed
consoleWrite(stream, text) == Append(stream, text)

\* the lines a stream holds
RECURSIVE StreamLines(_)
StreamLines(stream) ==
    IF stream = << >> THEN << >>
    ELSE Lines(Head(stream)) \o StreamLines(Tail(stream))

Event(step, outcome) == [step |-> step, outcome |-> outcome]

\* process.exit(code)
Exit(code) == exitCode' = <<code>> /\ pc' = "exited"

\* main() rejects and nothing handles the rejection: Node reports it on
\* standard error and exits with code 1
UnhandledRejection(step) ==
    /\ stderr' = consoleWrite(stderr, "Uncaught " \o step)
    /\ Exit(1)
    /\ UNCHANGED <<stdout, thrown>>

\* a step in front of the try block: it returns, or it throws
PlainStep(step, ok, next) ==
    /\ trace' = Append(trace, Event(step, IF ok THEN "ok" ELSE "throw"))
    /\ IF ok
       THEN /\ pc' = next
            /\ UNCHANGED <<stdout, stderr, exitCode, thrown>>
       ELSE UnhandledRejection(step)
    /\ UNCHANGED <<argv, env, mockArgs>>
    /\ UNCHANGED toolVars

\* mutant of MainEntry: the usage error is reported but main() goes on
MainEntryNoExit ==
    /\ pc = "main"
    /\ env' = [env EXCEPT !.QWEN_DISABLE_TELEMETRY = Str("true"),
                          !.QWEN_CODE_TELEMETRY_DISABLED = Str("1")]
    /\ IF ~Truthy(At(argv, 2))
       THEN stderr' = consoleWrite(stderr, UsageText)
       ELSE stderr' = stderr
    /\ pc' = "loadSettings"
    /\ UNCHANGED <<argv, mockArgs, stdout, exitCode, trace, thrown>>
    /\ UNCHANGED toolVars

\* main(), up to the test of the prompt
MainEntry ==
    /\ pc = "main"
    /\ env' = [env EXCEPT !.QWEN_DISABLE_TELEMETRY = Str("true"),
                          !.QWEN_CODE_TELEMETRY_DISABLED = Str("1")]
    /\ IF ~Truthy(At(argv, 2))
       THEN /\ stderr' = consoleWrite(stderr, UsageText)
            /\ Exit(1)
       ELSE /\ pc' = "loadSettings"
            /\ UNCHANGED <<stderr, exitCode>>
    /\ UNCHANGED <<argv, mockArgs, stdout, trace, thrown>>
    /\ UNCHANGED toolVars

\* loadSettings(process.cwd()) and the ExtensionEnablementManager
LoadSettings(ok) ==
    /\ pc = "loadSettings"
    /\ PlainStep("loadSettings", ok, "mockArgs")

\* the flags and the environment are read, the config line is logged
BuildMockArgs ==
    /\ pc = "mockArgs"
    /\ mockArgs' = buildMockArgs(argv, env)
    /\ stdout' = consoleWrite(stdout,
                     ConfigLogLine(mockArgs'.model, mockArgs'.openaiBaseUrl))
    /\ pc' = "loadCliConfig"
    /\ UNCHANGED <<argv, env, stderr, exitCode, trace, thrown>>
    /\ UNCHANGED toolVars

\* await loadCliConfig(settings.merged, [], manager, mockArgs, cwd)
LoadCliConfig(ok) ==
    /\ pc = "loadCliConfig"
    /\ PlainStep("loadCliConfig", ok, "initialize")

\* await config.initialize()
Initialize(ok) ==
    /\ pc = "initialize"
    /\ PlainStep("initialize", ok, "refreshAuth")

\* await config.refreshAuth(AuthType.USE_OPENAI, true)
RefreshAuth(ok) ==
    /\ pc = "refreshAuth"
    /\ PlainStep("refreshAuth", ok, "registerTool")

\* registerTool(new ReportStatusTool()), then the "Starting" line
RegisterTool(ok) ==
    /\ pc = "registerTool"
    /\ trace' = Append(trace, Event("registerTool", IF ok THEN "ok" ELSE "throw"))
    /\ IF ok
       THEN /\ stdout' = consoleWrite(stdout, "[bridge] Starting native CLI loop...")
            /\ pc' = "try"
            /\ UNCHANGED <<stderr, exitCode, thrown>>
       ELSE UnhandledRejection("registerTool")
    /\ UNCHANGED <<argv, env, mockArgs>>
    /\ UNCHANGED toolVars

\* the try block is entered and runNonInteractive is called
CallRunNonInteractive ==
    /\ pc = "try"
    /\ env' = [env EXCEPT !.QWEN_DISABLE_TELEMETRY = Str("true")]
    /\ trace' = Append(trace, Event("runNonInteractive", "pending"))
    /\ pc' = "running"
    /\ UNCHANGED <<argv, mockArgs, stdout, stderr, exitCode, thrown>>
    /\ UNCHANGED toolVars

\* the engine streams a line of its own while the run is pending
EngineOutput(line) ==
    /\ pc = "running"
    /\ Len(stdout) < 2 + MaxEngineLines
    /\ stdout' = consoleWrite(stdout, line)
    /\ UNCHANGED <<argv, env, pc, mockArgs, stderr, exitCode, trace, thrown>>
    /\ UNCHANGED toolVars

SetLast(seq, x) == [seq EXCEPT ![Len(seq)] = x]

\* mutant of RunReturns: the exit code of the failure branch
RunReturnsExitOne ==
    /\ pc = "running"
    /\ trace' = SetLast(trace, Event("runNonInteractive", "ok"))
    /\ stdout' = consoleWrite(stdout, SuccessMarker)
    /\ Exit(1)
    /\ UNCHANGED <<argv, env, mockArgs, stderr, thrown>>
    /\ UNCHANGED toolVars

\* runNonInteractive returns: the success marker, process.exit(0)
RunReturns ==
    /\ pc = "running"
    /\ trace' = SetLast(trace, Event("runNonInteractive", "ok"))
    /\ stdout' = consoleWrite(stdout, SuccessMarker)
    /\ Exit(0)
    /\ UNCHANGED <<argv, env, mockArgs, stderr, thrown>>
    /\ UNCHANGED toolVars

\* mutant of RunThrows: the run is tried again instead of reported
RunThrowsRetry(e) ==
    /\ pc = "running"
    /\ trace' = SetLast(trace, Event("runNonInteractive", "throw"))
    /\ thrown' = <<e>>
    /\ stderr' = consoleWrite(stderr, "Bridge Error: " \o String(e))
    /\ pc' = "try"
    /\ UNCHANGED <<argv, env, mockArgs, stdout, exitCode>>
    /\ UNCHANGED toolVars

\* runNonInteractive throws e: the catch block
RunThrows(e) ==
    /\ pc = "running"
    /\ trace' = SetLast(trace, Event("runNonInteractive", "throw"))
    /\ thrown' = <<e>>
    /\ stderr' = consoleWrite(stderr, "Bridge Error: " \o String(e))
    /\ stdout' = consoleWrite(stdout, FailureMarker(e))
    /\ Exit(1)
    /\ UNCHANGED <<argv, env, mockArgs>>
    /\ UNCHANGED toolVars

(* the inputs of a run *)

Tokens == {"--openai-api-key", "--openai-base-url", "--model", "v", ""}
Prompts == {"", "do it"}

ArgvInputs ==
    {<<"node", "oneagent-bridge.js">>} \cup
    {<<"node", "oneagent-bridge.js", p>> \o rest :
        p \in Prompts, rest \in UNION {[1..k -> Tokens] : k \in 0..MaxArgs}}

EnvInputs ==
    [OPENAI_API_KEY : Optional({"", "env-key"}),
     OPENAI_BASE_URL : Optional({"", "https://env.example/v1"}),
     QWEN_DISABLE_TELEMETRY : {Undefined},
     QWEN_CODE_TELEMETRY_DISABLED : {Undefined}]

JsError(name, message) == [type |-> "error", name |-> name, message |-> message]
JsString(s) == [type |-> "string", name |-> "", message |-> s]

ThrownValues ==
    {JsError("Error", "boom"), JsError("Error", ""),
     JsError("TypeError", "fetch failed"), JsError("Error", "a\nb"),
     JsString("boom")}

EngineLines == {"{\"type\":\"assistant\"}"}

Init ==
    /\ argv \in ArgvInputs
    /\ env \in EnvInputs
    /\ pc = "main"
    /\ mockArgs = Undefined
    /\ stdout = << >>
    /\ stderr = << >>
    /\ exitCode = << >>
    /\ trace = << >>
    /\ thrown = << >>
    /\ ToolIdle("result")

Next ==
    \/ MainEntry
    \/ \E ok \in BOOLEAN : LoadSettings(ok)
    \/ BuildMockArgs
    \/ \E ok \in BOOLEAN : LoadCliConfig(ok)
    \/ \E ok \in BOOLEAN : Initialize(ok)
    \/ \E ok \in BOOLEAN : RefreshAuth(ok)
    \/ \E ok \in BOOLEAN : RegisterTool(ok)
    \/ CallRunNonInteractive
    \/ \E line \in EngineLines : EngineOutput(line)
    \/ RunReturns
    \/ \E e \in ThrownValues : RunThrows(e)

Spec == Init /\ [][Next]_vars

-----------------------------------------------------------------------------
(* Properties of the bridge, checked under Spec *)

Prompt == At(argv, 2)
HasPrompt == Truthy(Prompt)
Exited == pc = "exited"
ArgsBuilt == DOMAIN mockArgs # {}

StdoutLines == StreamLines(stdout)
MarkerLineNumbers ==
    {i \in 1..Len(StdoutLines) : StartsWith(StdoutLines[i], MarkerPrefix)}

Count(step) == Cardinality({i \in 1..Len(trace) : trace[i].step = step})
Outcome(step) ==
    IF \E i \in 1..Len(trace) : trace[i].step = step
    THEN (CHOOSE ev \in {trace[i] : i \in 1..Len(trace)} : ev.step = step).outcome
    ELSE "never"

\* C1: every run started with a prompt ends with exactly one line that begins
\* with __ONEAGENT_RESULT__: on standard output, and that line is the last
\* line of standard output, whichever step succeeded or failed.
C1_OneMarkerLineLast ==
    (Exited /\ HasPrompt) =>
        /\ Cardinality(MarkerLineNumbers) = 1
        /\ Len(StdoutLines) \in MarkerLineNumbers

C3_NoPromptIsUsageError ==
    (~HasPrompt /\ pc # "main") =>
        /\ Exited
        /\ exitCode = <<1>>
        /\ stderr = <<UsageText>>
        /\ MarkerLineNumbers = {}
        /\ stdout = << >>
        /\ trace = << >>
        /\ ~ArgsBuilt

C3_Witness ==
    /\ Exited
    /\ Prompt = Str("")
    /\ Len(argv) > 3
    /\ stderr = <<UsageText>>

FlagNames == {"--openai-api-key", "--openai-base-url"}
Handed(flag) ==
    IF flag = "--openai-api-key" THEN mockArgs.openaiApiKey ELSE mockArgs.openaiBaseUrl
EnvValue(flag) ==
    IF flag = "--openai-api-key" THEN env.OPENAI_API_KEY ELSE env.OPENAI_BASE_URL
FlagPresent(flag) == \E i \in 1..Len(argv) : argv[i] = flag
\* the argument after the first occurrence of the flag, if there is one
FlagArgument(flag) ==
    LET first == CHOOSE i \in 1..Len(argv) :
                     argv[i] = flag /\ \A j \in 1..(i - 1) : argv[j] # flag
    IN  IF first < Len(argv) THEN Str(argv[first + 1]) ELSE Undefined
FlagHasValue(flag) == FlagPresent(flag) /\ Truthy(FlagArgument(flag))

\* equal, or both without a value (undefined or empty)
SameValue(a, b) == a = b \/ (~Truthy(a) /\ ~Truthy(b))

\* C9 as stated: whenever the flag is present on the command line the value
\* handed to the configuration is the flag's (none, if the flag has none),
\* and the environment variable is used only when the flag is absent.
C9_FlagPresentWins ==
    ArgsBuilt =>
        \A flag \in FlagNames :
            /\ FlagPresent(flag) => SameValue(Handed(flag), FlagArgument(flag))
            /\ ~FlagPresent(flag) => Handed(flag) = EnvValue(flag)

\* C9, amended: the value handed to the configuration is the argument that
\* follows the first occurrence of the flag whenever that argument exists and
\* is not empty; otherwise (flag absent, flag last, flag followed by an empty
\* argument) it is the environment variable, which may be unset.
C9_FlagWithValueWins ==
    ArgsBuilt =>
        \A flag \in FlagNames :
            /\ FlagHasValue(flag) => Handed(flag) = FlagArgument(flag)
            /\ ~FlagHasValue(flag) => Handed(flag) = EnvValue(flag)

C9_Witness ==
    /\ ArgsBuilt
    /\ FlagHasValue("--openai-api-key")
    /\ Truthy(env.OPENAI_API_KEY)
    /\ mockArgs.openaiApiKey = Str("v")
    /\ ~FlagPresent("--openai-base-url")
    /\ mockArgs.openaiBaseUrl = Str("https://env.example/v1")

StepNames == [i \in 1..Len(trace) |-> trace[i].step]

\* C10 as stated: every run with a prompt initializes the engine once,
\* registers the tool once and calls runNonInteractive exactly once.
C10_ExactlyOnceEach ==
    (Exited /\ HasPrompt) =>
        /\ Count("initialize") = 1
        /\ Count("registerTool") = 1
        /\ Count("runNonInteractive") = 1

\* C10, amended: the steps are called in the fixed order loadSettings,
\* loadCliConfig, initialize, refreshAuth, registerTool, runNonInteractive,
\* at most once each, and none is called after a step threw; the run starts
\* only after the tool was registered; runNonInteractive is called exactly
\* once in every run whose earlier steps all completed, and never again
\* after it returned or threw.
C10_FixedOrderAtMostOnce ==
    /\ Len(trace) <= Len(Steps)
    /\ StepNames = SubSeq(Steps, 1, Len(trace))
    /\ \A i \in 1..(Len(trace) - 1) : trace[i].outcome = "ok"
    /\ \A step \in {Steps[i] : i \in 1..Len(Steps)} : Count(step) <= 1
    /\ pc \in {"try", "running"} => Outcome("registerTool") = "ok"
    /\ Count("runNonInteractive") = 1 =>
          /\ Outcome("initialize") = "ok"
          /\ Outcome("registerTool") = "ok"
    /\ (Exited /\ Outcome("registerTool") = "ok") =>
          /\ Count("runNonInteractive") = 1
          /\ Outcome("runNonInteractive") \in {"ok", "throw"}
    /\ Outcome("runNonInteractive") \in {"ok", "throw"} => Exited

C10_Witness ==
    /\ Exited
    /\ Len(trace) = Len(Steps)
    /\ trace[Len(trace)] = Event("runNonInteractive", "throw")

-----------------------------------------------------------------------------
(* Properties of the report_status tool, checked under SpecTool *)

\* two characters that differ at most in case
SameLetter(a, b) ==
    \/ a = b
    \/ \E i \in 1..Len(UpperCase) :
          {a, b} = {CharAt(UpperCase, i), CharAt(LowerCase, i)}

SameIgnoringCase(s, t) ==
    /\ Len(s) = Len(t)
    /\ \A i \in 1..Len(s) : SameLetter(CharAt(s, i), CharAt(t, i))

Recognized == {"success", "failure", "rejected", "interrupted"}
IsRecognized(status) == \E c \in Recognized : SameIgnoringCase(status, c)

Called == tpc # "idle"
RawPayload == PayloadOf(variant, raw)
MissingOrEmpty(o) == o = Undefined \/ o = Str("")
PayloadRequired == Str(IF variant = "result" THEN "result is required"
                       ELSE "message is required")

\* C4: in both versions of the tool validation returns an error if and only
\* if the status is missing or empty, or the payload text is missing or
\* empty, or the status is, whatever its case, none of success, failure,
\* rejected, interrupted; otherwise it returns null.
C4_ValidationRejectsExactly ==
    Called =>
        ((error # Null) <=>
            \/ MissingOrEmpty(raw.status)
            \/ MissingOrEmpty(RawPayload)
            \/ ~IsRecognized(raw.status[1]))

C4_Witness ==
    /\ tpc = "rejected"
    /\ variant = "message"
    /\ raw.status = Str("DONE")
    /\ raw.message = Str("ok")
    /\ error = Str(InvalidStatusError("DONE"))

\* C5: the record constructed for an accepted input holds the lowercase
\* canonical status (the same for every case variant of a token) and the
\* payload and optional fields exactly as supplied.
C5_NormalizedRecord ==
    tpc = "built" =>
        /\ \E c \in Recognized :
              /\ SameIgnoringCase(raw.status[1], c)
              /\ inv.status = Str(c)
        /\ IF variant = "result"
           THEN /\ inv.result = raw.result
                /\ inv.reason = raw.reason
                /\ inv.mismatch_detail = raw.mismatch_detail
                /\ DOMAIN inv = {"status", "result", "reason", "mismatch_detail"}
           ELSE /\ inv.message = raw.message
                /\ DOMAIN inv = {"status", "message"}

C5_Witness ==
    /\ tpc = "built"
    /\ variant = "result"
    /\ raw.status = Str("sUcCeSs")
    /\ inv.status = Str("success")
    /\ inv.result = Str("  padded  ")
    /\ inv.reason = Str("a\nb")
    /\ inv.mismatch_detail = Undefined

\* C6: an invocation that was constructed or executed holds one of the four
\* statuses and a non-empty payload, and its raw status passed validation;
\* for an input that fails validation no invocation is constructed and
\* nothing is executed.
C6_ValidatedBeforeExecution ==
    /\ tpc = "built" =>
          /\ error = Null
          /\ inv.status \in {Str(c) : c \in Recognized}
          /\ Truthy(PayloadOf(variant, inv))
          /\ IsRecognized(raw.status[1])
    /\ outputs # << >> => tpc = "built"
    /\ tpc = "rejected" =>
          /\ error # Null
          /\ DOMAIN inv = {}
          /\ outputs = << >>

C6_Witness ==
    /\ tpc = "built"
    /\ raw.status = Str("INTERRUPTED")
    /\ inv.status = Str("interrupted")
    /\ Len(outputs) = MaxExecute

\* C7 as stated: whenever the payload text is empty the error returned is the
\* payload-required error, whatever the status.
C7_EmptyPayloadError ==
    (Called /\ RawPayload = Str("")) => error = PayloadRequired

\* C7, amended: with an empty payload text validation always fails; the error
\* is the payload-required error when the status is not empty (recognized or
\* not), and "status is required" when the status is empty or missing.
C7_EmptyPayloadErrorAfterStatus ==
    (Called /\ RawPayload = Str("")) =>
        /\ tpc = "rejected"
        /\ ~MissingOrEmpty(raw.status) => error = PayloadRequired
        /\ MissingOrEmpty(raw.status) => error = Str("status is required")

C7_Witness ==
    /\ tpc = "rejected"
    /\ variant = "result"
    /\ raw.status = Str("")
    /\ raw.result = Str("")
    /\ error = Str("status is required")

Populated(o) == o # Undefined /\ o # Str("")

\* the label of each field's line, in the order of the rendering
Labels ==
    IF variant = "result"
    THEN << <<"status", "Status: ">>, <<"result", "Result: ">>,
            <<"reason", "Reason: ">>, <<"mismatch_detail", "Mismatch Detail: ">> >>
    ELSE << <<"status", "Status: ">>, <<"message", "Result: ">> >>

RECURSIVE FieldLines(_, _)
FieldLines(record, labels) ==
    IF labels = << >> THEN << >>
    ELSE (IF Populated(record[Head(labels)[1]])
          THEN << Head(labels)[2] \o record[Head(labels)[1]][1] >>
          ELSE << >>)
         \o FieldLines(record, Tail(labels))

HasLineFeed(s) == \E i \in 1..Len(s) : CharAt(s, i) = "\n"
SingleLineFields(record) ==
    \A k \in DOMAIN record : record[k] = Undefined \/ ~HasLineFeed(record[k][1])

\* the normalized records, each with its serialization
NormalizedRecords ==
    [status : {Str(c) : c \in Recognized}, result : Optional(PayloadTexts),
     reason : Optional(ReasonTexts), mismatch_detail : Optional(MismatchTexts)]
    \cup [status : {Str(c) : c \in Recognized}, message : Optional(PayloadTexts)]
Serialization ==
    {<<r, JSONstringify(r, IF "message" \in DOMAIN r THEN MessageKeys ELSE ResultKeys)>> :
        r \in NormalizedRecords}
Deserialize(text) == {p[1] : p \in {q \in Serialization : q[2] = text}}

OneLinePerField(out) == Lines(out.returnDisplay) = FieldLines(inv, Labels)

\* C8 as stated: for every valid record the display holds exactly one line
\* per populated field, in the order Status, Result, Reason, Mismatch Detail,
\* and no other line.
C8_OneLinePerField ==
    tpc = "built" => \A i \in 1..Len(outputs) : OneLinePerField(outputs[i])

\* C8, amended: for every valid record whose field texts hold no line feed
\* the display holds exactly one line per populated field (an optional field
\* that is missing or empty has none), in the order Status, Result, Reason,
\* Mismatch Detail, and no other line; for every valid record the text
\* returned is a serialization from which exactly that record is read back;
\* a second execute returns the same two outputs and leaves the record
\* unchanged.
C8_Executed ==
    tpc = "built" =>
        \A i \in 1..Len(outputs) :
            /\ SingleLineFields(inv) => OneLinePerField(outputs[i])
            /\ Len(outputs[i].llmContent) = 1
            /\ Deserialize(outputs[i].llmContent[1].text) = {inv}
            /\ outputs[i] = outputs[1]

C8_RecordUnchanged ==
    (tpc = "built" /\ Len(outputs') > Len(outputs)) =>
        /\ inv' = inv
        /\ tpc' = "built"
        /\ SubSeq(outputs', 1, Len(outputs)) = outputs

\* C8, amended, in full: what every execute returns (C8_Executed) and that
\* an execute leaves the record and the earlier outputs as they were.
C8_ExecuteIsPure == [](C8_Executed) /\ [][C8_RecordUnchanged]_vars

C8_Witness ==
    /\ tpc = "built"
    /\ variant = "result"
    /\ Len(outputs) = 2
    /\ inv.reason = Str("FileSystemError")
    /\ inv.mismatch_detail = Undefined
    /\ outputs[2].returnDisplay = "Status: failure\nResult: ok\nReason: FileSystemError"

=============================================================================
